---- MODULE Spec2Model ----
(***************************************************************************)
(* The key-value store contract of package store (src/doc.go).  The        *)
(* package holds three revisions of the Store interface; each method's doc *)
(* comment states what a call does, and the model below is the state       *)
(* machine those comments describe: a keyed set of records, some carrying  *)
(* a deadline after which the key is clear, and one action per method.     *)
(***************************************************************************)
EXTENDS Integers, Sequences, FiniteSets, TLC

\* ---------------------------------------------------------------- bounds
MaxTime == 2
MaxCallers == 3

\* Keys are strings (k string); values are numbers.
KeySet == {"a", "b"}
Values == {7, 42}
Instants == 0..MaxTime
Timeouts == 1..MaxTime

\* The three revisions of the Store interface held by doc.go.
RevBool == "bool"
RevBinary == "binary"
RevErr == "err"
Revisions == {RevBool, RevBinary, RevErr}

\* ---------------------------------------------------------------- errors
Nil == "nil"
ErrNoRows == "no values in result set"
ErrKeyExists == "the key already exists"
\* "Err is non-nil in case of failure": any backend failure.
ErrFailure == "failure"

\* ---------------------------------------------------------------- codec
\* json.Marshaler / encoding.BinaryMarshaler: a value is stored as the
\* decimal digits of its number, least significant digit last.
RECURSIVE Digits(_)
Digits(n) == IF n < 10 THEN <<n>> ELSE Append(Digits(n \div 10), n % 10)

MarshalJSON(v) == Digits(v)

RECURSIVE Number(_)
Number(b) == IF Len(b) = 0 THEN 0
             ELSE 10 * Number(SubSeq(b, 1, Len(b) - 1)) + b[Len(b)]

UnmarshalJSON(b) == Number(b)

\* The zero value a decode target holds before anything is decoded into it.
ZeroValue == 0

VARIABLES rev, store, now, last, callers

vars == <<rev, store, now, last, callers>>

\* ---------------------------------------------------------------- records
Plain(v) == [data |-> MarshalJSON(v), timed |-> FALSE, deadline |-> 0]

Timed(v, dl) == [data |-> MarshalJSON(v), timed |-> TRUE, deadline |-> dl]

Put(s, k, rec) == [x \in (DOMAIN s) \cup {k} |-> IF x = k THEN rec ELSE s[x]]

Remove(s, k) == [x \in (DOMAIN s) \ {k} |-> s[x]]

\* A store that never looks at a deadline.
IsLiveIgnoringDeadline(s, t, k) == k \in DOMAIN s

\* "The assigned key will clear after deadline": a record stands for a key of
\* the store up to and including its deadline, and no longer after it.
IsLive(s, t, k) == k \in DOMAIN s /\ (s[k].timed => t <= s[k].deadline)

LiveKeys(s, t) == {k \in KeySet : IsLive(s, t, k)}

\* ---------------------------------------------------------------- results
\* What each method returns and the store it leaves, by revision r, store s,
\* call time t and the call's arguments.

\* Get: "Ok is false if the key was not found."
GetOk(s, t, k) == IsLive(s, t, k)

\* Get, third revision: "Err is non-nil if key was not found".
GetErr(r, s, t, k) == IF r = RevErr /\ ~IsLive(s, t, k) THEN ErrNoRows ELSE Nil

\* Get "unmarshals it to v"; a target nothing is decoded into keeps its zero.
GetVal(s, t, k) == IF IsLive(s, t, k) THEN UnmarshalJSON(s[k].data) ELSE ZeroValue

\* A Set that leaves a key that is already there as it is.
SetStoreKeep(s, k, v) == IF k \in DOMAIN s THEN s ELSE Put(s, k, Plain(v))

\* Set "idempotently assigns the given value to the given key".
SetStore(s, k, v) == Put(s, k, Plain(v))

\* A SetWithTimeout that takes the timeout for the deadline.
SetWithTimeoutStoreAbsolute(s, t, k, v, d) == Put(s, k, Timed(v, d))

\* SetWithTimeout: "The assigned key will clear after timeout.  The lifespan
\* starts when this function is called."
SetWithTimeoutStore(s, t, k, v, d) == Put(s, k, Timed(v, t + d))

\* SetWithDeadline: "The assigned key will clear after deadline."
SetWithDeadlineStore(s, k, v, dl) == Put(s, k, Timed(v, dl))

\* An Add that never reports a key as present.
AddErrNever(s, t, k) == Nil

\* Add (keyed): "Err is non-nil if key is already present".
AddErr(s, t, k) == IF IsLive(s, t, k) THEN ErrKeyExists ELSE Nil

\* An Add that writes whether the key is present or not.
AddStoreOverwrite(s, t, k, v) == Put(s, k, Plain(v))

\* Add (keyed): "assigns the given value to the given key if it doesn't exist
\* already."
AddStore(s, t, k, v) == IF IsLive(s, t, k) THEN s ELSE Put(s, k, Plain(v))

\* Add (first revision): "assigns the given value to a new key, and returns
\* the key": the keys it may return.
NewKeys(s, t) == {k \in KeySet : ~IsLive(s, t, k)}

\* Update: "Ok is false if the key was not found."
UpdateOk(s, t, k) == IsLive(s, t, k)

\* Update, third revision: "Err is non-nil if key was not found".
UpdateErr(r, s, t, k) == IF r = RevErr /\ ~IsLive(s, t, k) THEN ErrNoRows ELSE Nil

\* An Update that creates the key it does not find.
UpdateStoreUpsert(s, t, k, v) == Put(s, k, Plain(v))

\* Update "assigns the given value to the given key, if it exists."
UpdateStore(s, t, k, v) == IF IsLive(s, t, k) THEN Put(s, k, Plain(v)) ELSE s

\* Delete: "Ok is false if the key was not found."
DeleteOk(s, t, k) == IsLive(s, t, k)

\* Delete, third revision: "Err is non-nil if key was not found".
DeleteErr(r, s, t, k) == IF r = RevErr /\ ~IsLive(s, t, k) THEN ErrNoRows ELSE Nil

\* A Delete that removes nothing.
DeleteStoreKeep(s, k) == s

\* Delete "removes a key and its value from the store."
DeleteStore(s, k) == Remove(s, k)

\* Del "idempotently removes a key from the store."
DelStore(s, k) == Remove(s, k)

\* Collection.New: appends a new empty element to the caller's collection
\* and returns it (README, "The Collection").
CollectionNew(c) == Append(c, ZeroValue)

\* The orders in which the items of a key set can be fetched.
Orders(S) == {o \in [1..Cardinality(S) -> S] : \A i, j \in DOMAIN o : o[i] = o[j] => i = j}

\* GetAll "unmarshals to c every item in the store": for each item, in the
\* order o, one call to c.New() and one unmarshal into what it returned.
RECURSIVE Collect(_, _, _)
Collect(s, o, n) ==
    IF n = 0 THEN <<>>
    ELSE LET c == CollectionNew(Collect(s, o, n - 1))
         IN  [c EXCEPT ![Len(c)] = UnmarshalJSON(s[o[n]].data)]

\* A GetAll that fetches every record, its deadline passed or not.
GetAllItemsStored(s, t) == DOMAIN s

\* The items GetAll fetches.
GetAllItems(s, t) == LiveKeys(s, t)

\* ---------------------------------------------------------------- calls
\* The record of the latest call: the method, its arguments, when it was made
\* and what it returned (ok, err, and val or out for what was decoded).
Call(op, k, v, arg, at, ok, err, out) ==
    [op |-> op, key |-> k, val |-> v, arg |-> arg, at |-> at, ok |-> ok,
     err |-> err, out |-> out]

NoKey == ""

NoCall == Call("none", NoKey, ZeroValue, 0, 0, FALSE, Nil, <<>>)

\* A call that ends in a failure of the backend: "Err is non-nil in case of
\* failure".
Failed(op, k, v, arg) ==
    /\ last' = Call(op, k, v, arg, now, FALSE, ErrFailure, <<>>)
    /\ UNCHANGED <<rev, store, now, callers>>

\* A call that returns: the store it leaves and what it reports.
Returns(op, k, v, arg, ok, err, out, s) ==
    /\ store' = s
    /\ last' = Call(op, k, v, arg, now, ok, err, out)
    /\ UNCHANGED <<rev, now, callers>>

\* The goroutines of the concurrent callers: where each stands (idle, called,
\* done), the value it passes and the error it got.
Callers == 1..MaxCallers

Idle == [pc |-> "idle", val |-> ZeroValue, err |-> Nil]

EmptyStore == [k \in {} |-> Plain(ZeroValue)]

Init ==
    /\ rev \in Revisions
    /\ store = EmptyStore
    /\ now = 0
    /\ last = NoCall
    /\ callers = [c \in Callers |-> Idle]

Get(k) ==
    \E failed \in BOOLEAN :
        IF failed THEN Failed("Get", k, ZeroValue, 0)
        ELSE Returns("Get", k, GetVal(store, now, k), 0, GetOk(store, now, k),
                     GetErr(rev, store, now, k), <<>>, store)

GetAll ==
    /\ rev \in {RevBool, RevErr}
    /\ \E failed \in BOOLEAN, o \in Orders(GetAllItems(store, now)) :
        IF failed
        THEN \E n \in 0..Len(o) :
                /\ last' = Call("GetAll", NoKey, ZeroValue, 0, now, FALSE, ErrFailure,
                                Collect(store, o, n))
                /\ UNCHANGED <<rev, store, now, callers>>
        ELSE Returns("GetAll", NoKey, ZeroValue, 0, TRUE, Nil,
                     Collect(store, o, Len(o)), store)

AddNew(v) ==
    /\ rev = RevBool
    /\ \E failed \in BOOLEAN :
        IF failed \/ NewKeys(store, now) = {} THEN Failed("AddNew", NoKey, v, 0)
        ELSE \E k \in NewKeys(store, now) :
                Returns("AddNew", k, v, 0, TRUE, Nil, <<>>, Put(store, k, Plain(v)))

Add(k, v) ==
    /\ rev \in {RevBinary, RevErr}
    /\ \E failed \in BOOLEAN :
        IF failed THEN Failed("Add", k, v, 0)
        ELSE Returns("Add", k, v, 0, AddErr(store, now, k) = Nil,
                     AddErr(store, now, k), <<>>, AddStore(store, now, k, v))

Set(k, v) ==
    \E failed \in BOOLEAN :
        IF failed THEN Failed("Set", k, v, 0)
        ELSE Returns("Set", k, v, 0, TRUE, Nil, <<>>, SetStore(store, k, v))

SetWithTimeout(k, v, d) ==
    /\ now + d <= MaxTime + 1
    /\ \E failed \in BOOLEAN :
        IF failed THEN Failed("SetWithTimeout", k, v, d)
        ELSE Returns("SetWithTimeout", k, v, d, TRUE, Nil, <<>>,
                     SetWithTimeoutStore(store, now, k, v, d))

SetWithDeadline(k, v, dl) ==
    \E failed \in BOOLEAN :
        IF failed THEN Failed("SetWithDeadline", k, v, dl)
        ELSE Returns("SetWithDeadline", k, v, dl, TRUE, Nil, <<>>,
                     SetWithDeadlineStore(store, k, v, dl))

Update(k, v) ==
    /\ rev \in {RevBool, RevErr}
    /\ \E failed \in BOOLEAN :
        IF failed THEN Failed("Update", k, v, 0)
        ELSE Returns("Update", k, v, 0, UpdateOk(store, now, k),
                     UpdateErr(rev, store, now, k), <<>>,
                     UpdateStore(store, now, k, v))

Delete(k) ==
    /\ rev \in {RevBool, RevErr}
    /\ \E failed \in BOOLEAN :
        IF failed THEN Failed("Delete", k, ZeroValue, 0)
        ELSE Returns("Delete", k, ZeroValue, 0, DeleteOk(store, now, k),
                     DeleteErr(rev, store, now, k), <<>>, DeleteStore(store, k))

Del(k) ==
    /\ rev = RevBinary
    /\ \E failed \in BOOLEAN :
        IF failed THEN Failed("Del", k, ZeroValue, 0)
        ELSE Returns("Del", k, ZeroValue, 0, TRUE, Nil, <<>>, DelStore(store, k))

\* The clock of the caller advances.
Tick ==
    /\ now < MaxTime
    /\ now' = now + 1
    /\ UNCHANGED <<rev, store, last, callers>>

\* "The assigned key will clear after timeout": the record of a key whose
\* deadline has passed is removed, at some moment after the deadline.
Clear(k) ==
    /\ k \in DOMAIN store
    /\ ~IsLive(store, now, k)
    /\ store' = Remove(store, k)
    /\ UNCHANGED <<rev, now, last, callers>>

Next ==
    \/ \E k \in KeySet : Get(k)
    \/ GetAll
    \/ \E v \in Values : AddNew(v)
    \/ \E k \in KeySet, v \in Values : Add(k, v)
    \/ \E k \in KeySet, v \in Values : Set(k, v)
    \/ \E k \in KeySet, v \in Values, d \in Timeouts : SetWithTimeout(k, v, d)
    \/ \E k \in KeySet, v \in Values, dl \in Instants : SetWithDeadline(k, v, dl)
    \/ \E k \in KeySet, v \in Values : Update(k, v)
    \/ \E k \in KeySet : Delete(k)
    \/ \E k \in KeySet : Del(k)
    \/ Tick
    \/ \E k \in KeySet : Clear(k)

Spec == Init /\ [][Next]_vars

\* ------------------------------------------------------- concurrent callers
\* "All methods should be implemented concurrent-safe": calls made by several
\* goroutines take effect one at a time, each between its call and its return.
\* The callers all Add the same key.
RaceKey == "a"

InitAdd ==
    /\ rev \in {RevBinary, RevErr}
    /\ store \in {EmptyStore, Put(EmptyStore, "b", Plain(7))}
    /\ now = 0
    /\ last = NoCall
    /\ callers = [c \in Callers |-> Idle]

\* Goroutine c calls Add(RaceKey, v).
Invoke(c, v) ==
    /\ callers[c].pc = "idle"
    /\ callers' = [callers EXCEPT ![c] = [pc |-> "called", val |-> v, err |-> Nil]]
    /\ UNCHANGED <<rev, store, now, last>>

\* The Add of goroutine c takes effect and returns.
AddBy(c) ==
    /\ callers[c].pc = "called"
    /\ \E failed \in BOOLEAN :
        LET v == callers[c].val
            err == IF failed THEN ErrFailure ELSE AddErr(store, now, RaceKey)
        IN  /\ store' = IF failed THEN store ELSE AddStore(store, now, RaceKey, v)
            /\ last' = Call("Add", RaceKey, v, 0, now, err = Nil, err, <<>>)
            /\ callers' = [callers EXCEPT ![c] = [pc |-> "done", val |-> v, err |-> err]]
            /\ UNCHANGED <<rev, now>>

NextAdd ==
    \/ \E c \in Callers, v \in Values : Invoke(c, v)
    \/ \E c \in Callers : AddBy(c)

SpecAdd == InitAdd /\ [][NextAdd]_vars

\* ------------------------------------------------------------------ claims
\* Key k holds a live record: a record is stored under k and its deadline, if
\* it has one, has not passed.
HoldsLiveRecord(k) ==
    k \in DOMAIN store /\ (store[k].timed => now <= store[k].deadline)

\* Every key other than k is in the store after the step as it was before.
OthersUntouched(k) ==
    \A j \in KeySet \ {k} :
        /\ j \in DOMAIN store' <=> j \in DOMAIN store
        /\ j \in DOMAIN store => store'[j] = store[j]

\* C1: after a Set(k, v) that returned without error, and before any other
\* call, a Get(k) that does not fail in the backend returns found=true,
\* err=nil and the value v, whatever k held before the Set and however much
\* time has passed.
SetThenGet ==
    [][(/\ last.op = "Set" /\ last.err = Nil
        /\ last'.op = "Get" /\ last'.key = last.key /\ last'.err # ErrFailure
        /\ Get(last.key))
       => (last'.ok /\ last'.err = Nil /\ last'.val = last.val)]_vars

\* A Set has returned without error, time has passed since, and both keys
\* hold records.
SetThenGetWitness ==
    /\ last.op = "Set" /\ last.err = Nil /\ now > last.at
    /\ DOMAIN store = KeySet

\* C2: a Get(k) of a key that holds no live record, that does not fail in the
\* backend, returns found=false and err=nil, and leaves the store unchanged.
GetAbsentNoError ==
    [][(/\ last'.op = "Get" /\ last'.err # ErrFailure
        /\ ~HoldsLiveRecord(last'.key)
        /\ Get(last'.key))
       => (~last'.ok /\ last'.err = Nil /\ store' = store)]_vars

\* C3: an Add(k, v1) of a key that holds no live record succeeds, gives k the
\* value v1 and changes no other key; an Add(k, v2) that follows it fails with
\* the key-already-exists error and leaves the store as the first call left
\* it, k still holding v1 (calls that fail in the backend aside).
AddTwice ==
    [][(/\ last'.op = "Add" /\ last'.err # ErrFailure
        /\ Add(last'.key, last'.val))
       => LET k == last'.key
          IN  /\ ~HoldsLiveRecord(k)
                 => /\ last'.err = Nil
                    /\ k \in DOMAIN store'
                    /\ UnmarshalJSON(store'[k].data) = last'.val
                    /\ OthersUntouched(k)
              /\ (last.op = "Add" /\ last.key = k /\ last.err = Nil)
                 => /\ last'.err = ErrKeyExists
                    /\ store' = store
                    /\ UnmarshalJSON(store'[k].data) = last.val]_vars

\* An Add was refused for a key that holds a value other than the one passed.
AddTwiceWitness ==
    /\ last.op = "Add" /\ last.err = ErrKeyExists
    /\ last.key \in DOMAIN store
    /\ UnmarshalJSON(store[last.key].data) # last.val

\* C5: an Update(k, v) of a key that holds no live record, that does not fail
\* in the backend, reports not-found (ok=false with a nil error in the boolean
\* revision, ErrNoRows in the error revision), creates nothing and leaves the
\* store unchanged; and the not-found report is given for such keys only, so
\* it is neither the report of a failure nor that of an update done.
UpdateAbsent ==
    [][(/\ last'.op = "Update" /\ last'.err # ErrFailure
        /\ Update(last'.key, last'.val))
       => LET notFound == IF rev = RevErr THEN last'.err = ErrNoRows
                          ELSE ~last'.ok /\ last'.err = Nil
          IN  /\ notFound <=> ~HoldsLiveRecord(last'.key)
              /\ ~HoldsLiveRecord(last'.key) => store' = store
              /\ last'.err \in {Nil, ErrNoRows}]_vars

\* An Update has reported not-found for a key with no record, in a store that
\* holds another key.
UpdateAbsentWitness ==
    /\ last.op = "Update" /\ last.err \in {Nil, ErrNoRows} /\ ~last.ok
    /\ last.key \notin DOMAIN store
    /\ DOMAIN store # {}

SetWithTimeoutExpires ==
    [][/\ (/\ last'.op = "SetWithTimeout" /\ last'.err = Nil
           /\ SetWithTimeout(last'.key, last'.val, last'.arg))
          => /\ store'[last'.key].timed
             /\ store'[last'.key].deadline = now + last'.arg
       /\ (/\ last.op = "SetWithTimeout" /\ last.err = Nil
           /\ last'.op = "Get" /\ last'.key = last.key /\ last'.err # ErrFailure
           /\ Get(last.key))
          => /\ now = last.at => last'.ok /\ last'.val = last.val
             /\ now > last.at + last.arg => ~last'.ok]_vars

\* The timeout of the latest SetWithTimeout has passed and its record is
\* still in the store.
SetWithTimeoutWitness ==
    /\ last.op = "SetWithTimeout" /\ last.err = Nil
    /\ now > last.at + last.arg
    /\ last.key \in DOMAIN store

\* C8: after a SetWithDeadline(k, v, t) with t before the call time, a Get(k)
\* returns found=false, also when k held a live value before the call.
SetWithDeadlinePast ==
    [][(/\ last.op = "SetWithDeadline" /\ last.err = Nil
        /\ last.arg < last.at
        /\ last'.op = "Get" /\ last'.key = last.key /\ last'.err # ErrFailure
        /\ Get(last.key))
       => ~last'.ok]_vars

\* A SetWithDeadline with a deadline already passed has just returned, and
\* its record is in the store.
SetWithDeadlineWitness ==
    /\ last.op = "SetWithDeadline" /\ last.err = Nil
    /\ last.arg < last.at /\ now = last.at
    /\ last.key \in DOMAIN store

\* C9: a GetAll that returns without error has called New once per item and
\* filled the collection with the values of exactly the live records, each
\* once, in some order; a record whose deadline has passed is not among them,
\* removed or not.  (Stated while the clock stands at the call time.)
GetAllLive ==
    (last.op = "GetAll" /\ last.err = Nil /\ now = last.at)
    => LET live == {k \in KeySet : HoldsLiveRecord(k)}
       IN  /\ Len(last.out) = Cardinality(live)
           /\ \A x \in Values :
                Cardinality({i \in DOMAIN last.out : last.out[i] = x})
                = Cardinality({k \in live : UnmarshalJSON(store[k].data) = x})

\* A GetAll has returned one item from a store that holds two records, one
\* of them past its deadline and not yet removed.
GetAllLiveWitness ==
    /\ last.op = "GetAll" /\ last.err = Nil /\ now = last.at
    /\ Len(last.out) = 1
    /\ Cardinality(DOMAIN store) = 2

\* C4: when the concurrent callers all Add the same absent key, at most one
\* call succeeds and the key holds the value of the one that did; once all
\* have returned, none with a backend failure, exactly one has succeeded and
\* all the others have failed with the key-already-exists error.
ConcurrentAdd ==
    LET done == {c \in Callers : callers[c].pc = "done"}
        won == {c \in done : callers[c].err = Nil}
        lost == {c \in done : callers[c].err = ErrKeyExists}
    IN  /\ Cardinality(won) <= 1
        /\ \A c \in won :
            /\ RaceKey \in DOMAIN store
            /\ UnmarshalJSON(store[RaceKey].data) = callers[c].val
        /\ (done = Callers /\ won \cup lost = Callers)
           => Cardinality(won) = 1 /\ Cardinality(lost) = MaxCallers - 1

\* All callers have returned, none with a backend failure, and two of them
\* passed different values.
ConcurrentAddWitness ==
    /\ \A c \in Callers : callers[c].pc = "done" /\ callers[c].err # ErrFailure
    /\ \E c, d \in Callers : callers[c].val # callers[d].val

====
